---- MODULE Spec2Model ----
(***************************************************************************)
(* soundlab: the linear ADSR envelope (src/envelope/linear_adsr.rs), the   *)
(* voice (src/voice/mod.rs) and the polyphonic voice pool                  *)
(* (src/polyphony/mod.rs).                                                 *)
(*                                                                         *)
(* Numbers.  f32 levels, rates and velocities are fixed-point integers in  *)
(* units of 1/Unit, so 1.0 is Unit and 0.0 is 0.  Times are integers in    *)
(* milliseconds and sample rates integers in samples per second.  A voice  *)
(* output (oscillator x envelope x velocity) is an integer in units of     *)
(* 1/Unit^2.  Option<u8> is a sequence: None is <<>>, Some(n) is <<n>>.    *)
(* Pool indices are 0..N-1 as in the source.                               *)
(***************************************************************************)
EXTENDS Integers, Sequences, FiniteSets, TLC

\* ---------------------------------------------------------------- bounds
\* fixed-point resolution: the integer that stands for 1.0
Unit == 12
\* note_on is not taken once the counter has reached this value
MaxCounter == 4
\* const N: usize, the number of voices of the pool
N == 2

\* ------------------------------------------------------------- constants
\* linear_adsr.rs: MIN_TIME = 0.001 s, in milliseconds
MIN_TIME == 1
MIN_LEVEL == 0
MAX_LEVEL == Unit

\* the pool's indices
Idx == 0 .. (N - 1)

\* ---------------------------------------------------------------- inputs
\* u8 note numbers a caller passes: two the pitch conversion accepts, one it rejects
Notes == {60, 64, 200}
\* f32 velocities a caller of the pool passes: 1.5 (above the range)
Velocities == {(3 * Unit) \div 2}

None == <<>>
Some(n) == <<n>>

Max(a, b) == IF a >= b THEN a ELSE b
Min(a, b) == IF a <= b THEN a ELSE b
\* f32::clamp
Clamp(x, lo, hi) == Max(lo, Min(x, hi))

\* ------------------------------------------------------------ LinearAdsr
\* f32 +infinity on the level grid: above every finite rate
Infinity == Unit * Unit * 1000

\* 1.0 / (seconds * sample_rate), rounded down onto the level grid; an f32 division
\* of 1.0 by zero is +infinity
Rate(seconds, sample_rate) ==
    IF seconds * sample_rate = 0 THEN Infinity
    ELSE (Unit * 1000) \div (seconds * sample_rate)

LinearAdsr_new(sample_rate, attack, decay, sustain, release) ==
    LET a == Max(attack, MIN_TIME)
        d == Max(decay, MIN_TIME)
        r == Max(release, MIN_TIME)
    IN  [sample_rate  |-> sample_rate,
         attack       |-> a,
         decay        |-> d,
         sustain      |-> Clamp(sustain, MIN_LEVEL, MAX_LEVEL),
         release      |-> r,
         attack_rate  |-> Rate(a, sample_rate),
         decay_rate   |-> Rate(d, sample_rate),
         release_rate |-> Rate(r, sample_rate),
         stage        |-> "Idle",
         level        |-> MIN_LEVEL,
         retrigger    |-> TRUE]

\* set_attack that stores the time as given, without the floor at MIN_TIME
set_attack_nofloor(e, seconds) ==
    [e EXCEPT !.attack = seconds, !.attack_rate = Rate(seconds, e.sample_rate)]

set_attack(e, seconds) ==
    LET a == Max(seconds, MIN_TIME)
    IN  [e EXCEPT !.attack = a, !.attack_rate = Rate(a, e.sample_rate)]

set_decay(e, seconds) ==
    LET d == Max(seconds, MIN_TIME)
    IN  [e EXCEPT !.decay = d, !.decay_rate = Rate(d, e.sample_rate)]

set_release(e, seconds) ==
    LET r == Max(seconds, MIN_TIME)
    IN  [e EXCEPT !.release = r, !.release_rate = Rate(r, e.sample_rate)]

set_retrigger(e, retrigger) == [e EXCEPT !.retrigger = retrigger]

\* gate_on that never restarts from zero, whatever the retrigger flag
gate_on_legato(e) ==
    [e EXCEPT !.stage = IF e.level >= MAX_LEVEL THEN "Decay" ELSE "Attack"]

gate_on(e) ==
    LET level == IF e.retrigger THEN MIN_LEVEL ELSE e.level
    IN  [e EXCEPT !.level = level,
                  !.stage = IF level >= MAX_LEVEL THEN "Decay" ELSE "Attack"]

\* gate_off without the Idle test: an idle envelope enters Release too
gate_off_any(e) == [e EXCEPT !.stage = "Release"]

gate_off(e) ==
    IF e.stage # "Idle" THEN [e EXCEPT !.stage = "Release"] ELSE e

\* next_sample whose attack adds the rate and enters Decay without the clamp to MAX_LEVEL
Adsr_next_sample_noclamp(e) ==
    CASE e.stage = "Idle" -> e
      [] e.stage = "Attack" ->
            LET level == e.level + e.attack_rate
            IN  IF level >= MAX_LEVEL
                THEN [e EXCEPT !.level = level, !.stage = "Decay"]
                ELSE [e EXCEPT !.level = level]
      [] e.stage = "Decay" ->
            LET level == e.level - e.decay_rate
            IN  IF level <= e.sustain
                THEN [e EXCEPT !.level = e.sustain, !.stage = "Sustain"]
                ELSE [e EXCEPT !.level = level]
      [] e.stage = "Sustain" -> e
      [] e.stage = "Release" ->
            LET level == e.level - e.release_rate
            IN  IF level <= MIN_LEVEL
                THEN [e EXCEPT !.level = MIN_LEVEL, !.stage = "Idle"]
                ELSE [e EXCEPT !.level = level]

\* next_sample whose decay runs past the sustain level without the clamp to it
Adsr_next_sample_decay_through(e) ==
    CASE e.stage = "Idle" -> e
      [] e.stage = "Attack" ->
            LET level == e.level + e.attack_rate
            IN  IF level >= MAX_LEVEL
                THEN [e EXCEPT !.level = MAX_LEVEL, !.stage = "Decay"]
                ELSE [e EXCEPT !.level = level]
      [] e.stage = "Decay" ->
            LET level == e.level - e.decay_rate
            IN  IF level <= e.sustain
                THEN [e EXCEPT !.level = Max(level, MIN_LEVEL), !.stage = "Sustain"]
                ELSE [e EXCEPT !.level = level]
      [] e.stage = "Sustain" -> e
      [] e.stage = "Release" ->
            LET level == e.level - e.release_rate
            IN  IF level <= MIN_LEVEL
                THEN [e EXCEPT !.level = MIN_LEVEL, !.stage = "Idle"]
                ELSE [e EXCEPT !.level = level]

\* next_sample whose release ends only once the level would fall below MIN_LEVEL
Adsr_next_sample_strict(e) ==
    CASE e.stage = "Idle" -> e
      [] e.stage = "Attack" ->
            LET level == e.level + e.attack_rate
            IN  IF level >= MAX_LEVEL
                THEN [e EXCEPT !.level = MAX_LEVEL, !.stage = "Decay"]
                ELSE [e EXCEPT !.level = level]
      [] e.stage = "Decay" ->
            LET level == e.level - e.decay_rate
            IN  IF level <= e.sustain
                THEN [e EXCEPT !.level = e.sustain, !.stage = "Sustain"]
                ELSE [e EXCEPT !.level = level]
      [] e.stage = "Sustain" -> e
      [] e.stage = "Release" ->
            LET level == e.level - e.release_rate
            IN  IF level < MIN_LEVEL
                THEN [e EXCEPT !.level = MIN_LEVEL, !.stage = "Idle"]
                ELSE [e EXCEPT !.level = level]

\* the envelope after LinearAdsr::next_sample; the value returned is its level
Adsr_next_sample(e) ==
    CASE e.stage = "Idle" -> e
      [] e.stage = "Attack" ->
            LET level == e.level + e.attack_rate
            IN  IF level >= MAX_LEVEL
                THEN [e EXCEPT !.level = MAX_LEVEL, !.stage = "Decay"]
                ELSE [e EXCEPT !.level = level]
      [] e.stage = "Decay" ->
            LET level == e.level - e.decay_rate
            IN  IF level <= e.sustain
                THEN [e EXCEPT !.level = e.sustain, !.stage = "Sustain"]
                ELSE [e EXCEPT !.level = level]
      [] e.stage = "Sustain" -> e
      [] e.stage = "Release" ->
            LET level == e.level - e.release_rate
            IN  IF level <= MIN_LEVEL
                THEN [e EXCEPT !.level = MIN_LEVEL, !.stage = "Idle"]
                ELSE [e EXCEPT !.level = level]

Adsr_is_active(e) == e.stage # "Idle"

\* a reset that only starts the release instead of forcing Idle
Adsr_reset_release(e) == gate_off(e)

Adsr_reset(e) == [e EXCEPT !.level = MIN_LEVEL, !.stage = "Idle"]

\* ------------------------------------------- external collaborators (oscy, pitchy)
\* pitchy: Pitch::try_from_midi_number accepts the MIDI range 0..127
MidiValid(midi_note) == midi_note \in 0 .. 127

\* equal-tempered ratios of the twelve semitones of an octave, in thousandths
SemitoneRatio == <<1000, 1059, 1122, 1189, 1260, 1335, 1414, 1498, 1587, 1682, 1782, 1888>>

\* pitchy: Pitch::frequency for a MIDI note, in Hz (note 0 is 8.176 Hz), rounded down
Frequency(midi_note) ==
    (8176 * SemitoneRatio[(midi_note % 12) + 1] * (2 ^ (midi_note \div 12))) \div 1000000

\* oscy: an oscillator is a frequency and a position in its two-phase cycle
Osc_new(frequency) == [frequency |-> frequency, phase |-> 0]
Osc_set_frequency(o, hz) == [o EXCEPT !.frequency = hz]
Osc_output(o) == IF o.phase = 0 THEN 1 ELSE -1
Osc_next_sample(o) == [o EXCEPT !.phase = 1 - o.phase]
Osc_reset(o) == [o EXCEPT !.phase = 0]

\* ----------------------------------------------------------------- Voice
Voice_new(osc, amp_env) ==
    [osc |-> osc, amp_env |-> amp_env, velocity |-> 0, note |-> None]

\* try_note_on that triggers the voice but does not store the note
Voice_try_note_on_keep_note(v, midi_note, velocity) ==
    IF ~MidiValid(midi_note)
    THEN [ok |-> FALSE, voice |-> v]
    ELSE [ok |-> TRUE,
          voice |-> [v EXCEPT !.velocity = Clamp(velocity, 0, Unit),
                              !.osc = Osc_set_frequency(v.osc, Frequency(midi_note)),
                              !.amp_env = gate_on(v.amp_env)]]

\* try_note_on that stores the note and the velocity before it converts the pitch
Voice_try_note_on_store_first(v, midi_note, velocity) ==
    LET stored == [v EXCEPT !.note = Some(midi_note),
                            !.velocity = Clamp(velocity, 0, Unit)]
    IN  IF ~MidiValid(midi_note)
        THEN [ok |-> FALSE, voice |-> stored]
        ELSE [ok |-> TRUE,
              voice |-> [stored EXCEPT
                            !.osc = Osc_set_frequency(v.osc, Frequency(midi_note)),
                            !.amp_env = gate_on(v.amp_env)]]

\* [ok, voice]: Ok(()) or Err, and the voice after the call
Voice_try_note_on(v, midi_note, velocity) ==
    IF ~MidiValid(midi_note)
    THEN [ok |-> FALSE, voice |-> v]
    ELSE [ok |-> TRUE,
          voice |-> [v EXCEPT !.note = Some(midi_note),
                              !.velocity = Clamp(velocity, 0, Unit),
                              !.osc = Osc_set_frequency(v.osc, Frequency(midi_note)),
                              !.amp_env = gate_on(v.amp_env)]]

Voice_note_on(v, midi_note, velocity) == Voice_try_note_on(v, midi_note, velocity).voice

\* note_off that silences the envelope at once instead of starting its release
Voice_note_off_cut(v) == [v EXCEPT !.amp_env = Adsr_reset(v.amp_env), !.note = None]

Voice_note_off(v) == [v EXCEPT !.amp_env = gate_off(v.amp_env), !.note = None]

\* [out, voice]: the sample returned and the voice after the call
Voice_next_sample(v) ==
    LET osc_out == Osc_output(v.osc)
        env     == Adsr_next_sample(v.amp_env)
        env_out == env.level
    IN  [out   |-> osc_out * env_out * v.velocity,
         voice |-> [v EXCEPT !.osc = Osc_next_sample(v.osc), !.amp_env = env]]

Voice_is_active(v) == Adsr_is_active(v.amp_env)

\* reset that keeps the stored note
Voice_reset_keep_note(v) ==
    [v EXCEPT !.amp_env = Adsr_reset(v.amp_env),
              !.osc = Osc_reset(v.osc),
              !.velocity = 0]

Voice_reset(v) ==
    [v EXCEPT !.amp_env = Adsr_reset(v.amp_env),
              !.osc = Osc_reset(v.osc),
              !.velocity = 0,
              !.note = None]

\* ------------------------------------------------------------- Polyphony
VARIABLES voices, ages, counter, env, last

\* voices, ages, counter: the fields of Polyphony (polyphony/mod.rs, lines 57-61);
\* env: a LinearAdsr used on its own (linear_adsr.rs, lines 42-54);
\* last: the most recent call, its argument and what it returned or chose
vars == <<voices, ages, counter, env, last>>

Call(op, arg, ret) == [op |-> op, arg |-> arg, ret |-> ret]

\* the lowest and the highest index of a non-empty set of pool indices
Lowest(S) == CHOOSE i \in S : \A j \in S : i <= j
Highest(S) == CHOOSE i \in S : \A j \in S : i >= j

\* a free test on the stored note instead of the activity
find_free_voice_by_note(vs) ==
    LET free == {i \in Idx : vs[i].note = None}
    IN  IF free = {} THEN None ELSE Some(Lowest(free))

\* Iterator::position(|v| !v.is_active()): None, or Some(first inactive index)
find_free_voice(vs) ==
    LET free == {i \in DOMAIN vs : ~Voice_is_active(vs[i])}
    IN  IF free = {} THEN None ELSE Some(Lowest(free))

\* a scan that keeps the last of several minimum ages
find_voice_to_steal_last_min(ag) ==
    Highest({i \in Idx : \A j \in Idx : ag[i] <= ag[j]})

\* VoiceStealStrategy::Oldest: min_by_key over ages returns the first minimum, and
\* unwrap_or(0) turns the None of an empty ages array into index 0
find_voice_to_steal(ag) ==
    IF DOMAIN ag = {} THEN 0
    ELSE Lowest({i \in DOMAIN ag : \A j \in DOMAIN ag : ag[i] <= ag[j]})

active_count(vs) == Cardinality({i \in DOMAIN vs : Voice_is_active(vs[i])})

capacity == N

\* a next_sample without the filter: every voice is advanced and summed
next_sample_filter_all(v) == TRUE

\* the filter of Polyphony::next_sample
next_sample_filter(v) == Voice_is_active(v)

\* the sum, in pool order from index i on, of next_sample over the filtered voices
RECURSIVE SumFrom(_, _)
SumFrom(vs, i) ==
    IF i \notin DOMAIN vs THEN 0
    ELSE (IF next_sample_filter(vs[i]) THEN Voice_next_sample(vs[i]).out ELSE 0)
         + SumFrom(vs, i + 1)

\* the factory of the pool's voices: sample_rate 10, attack 0.1 s, decay 0.1 s,
\* sustain 0.5, release 0.2 s, oscillator at 440 Hz
PoolVoice ==
    Voice_new(Osc_new(440), LinearAdsr_new(10, 100, 100, Unit \div 2, 200))

\* Polyphony::new / from_factory
Init ==
    /\ voices = [i \in Idx |-> PoolVoice]
    /\ ages = [i \in Idx |-> 0]
    /\ counter = 0
    /\ env = PoolVoice.amp_env
    /\ last = Call("new", 0, 0)

\* note_on that stamps the age before it increments the counter
Polyphony_note_on_stamp_before(midi_note, velocity) ==
    /\ counter < MaxCounter
    /\ LET free == find_free_voice(voices)
           voice_idx == IF free # None THEN free[1] ELSE find_voice_to_steal(ages)
       IN  /\ ages' = [ages EXCEPT ![voice_idx] = counter]
           /\ counter' = counter + 1
           /\ voices' = [voices EXCEPT
                            ![voice_idx] = Voice_note_on(voices[voice_idx], midi_note, velocity)]
           /\ last' = Call("note_on", midi_note, voice_idx)
    /\ UNCHANGED env

\* note_on that converts the pitch first and returns at once when it is rejected
Polyphony_note_on_checked(midi_note, velocity) ==
    /\ counter < MaxCounter
    /\ LET free == find_free_voice(voices)
           voice_idx == IF free # None THEN free[1] ELSE find_voice_to_steal(ages)
       IN  IF MidiValid(midi_note)
           THEN /\ counter' = counter + 1
                /\ ages' = [ages EXCEPT ![voice_idx] = counter + 1]
                /\ voices' = [voices EXCEPT
                      ![voice_idx] = Voice_note_on(voices[voice_idx], midi_note, velocity)]
                /\ last' = Call("note_on", midi_note, voice_idx)
           ELSE /\ UNCHANGED <<counter, ages, voices>>
                /\ last' = Call("note_on", midi_note, voice_idx)
    /\ UNCHANGED env

\* last.ret is the index chosen.  self.ages[voice_idx] is a checked index: outside the
\* array the call panics, after the counter was incremented (last.op is "panic")
Polyphony_note_on(midi_note, velocity) ==
    /\ counter < MaxCounter
    /\ LET free == find_free_voice(voices)
           voice_idx == IF free # None THEN free[1] ELSE find_voice_to_steal(ages)
       IN  IF voice_idx \in DOMAIN ages
           THEN /\ counter' = counter + 1
                /\ ages' = [ages EXCEPT ![voice_idx] = counter + 1]
                /\ voices' = [voices EXCEPT
                      ![voice_idx] = Voice_note_on(voices[voice_idx], midi_note, velocity)]
                /\ last' = Call("note_on", midi_note, voice_idx)
           ELSE /\ counter' = counter + 1
                /\ UNCHANGED <<ages, voices>>
                /\ last' = Call("panic", midi_note, voice_idx)
    /\ UNCHANGED env

\* a match on any stored note, whatever its number
find_note_any(vs, midi_note) ==
    LET held == {i \in Idx : vs[i].note # None}
    IN  IF held = {} THEN None ELSE Some(Lowest(held))

\* a scan from the end of the pool
find_note_last(vs, midi_note) ==
    LET held == {i \in Idx : vs[i].note = Some(midi_note)}
    IN  IF held = {} THEN None ELSE Some(Highest(held))

\* the index Iterator::find(|v| v.note() == Some(midi_note)) yields, or None
find_note(vs, midi_note) ==
    LET held == {i \in DOMAIN vs : vs[i].note = Some(midi_note)}
    IN  IF held = {} THEN None ELSE Some(Lowest(held))

\* note_off that releases every voice storing the note
Polyphony_note_off_all(midi_note) ==
    /\ LET found == find_note(voices, midi_note)
       IN  /\ voices' = [i \in Idx |-> IF voices[i].note = Some(midi_note)
                                       THEN Voice_note_off(voices[i]) ELSE voices[i]]
           /\ last' = Call("note_off", midi_note, IF found = None THEN N ELSE found[1])
    /\ UNCHANGED <<ages, counter, env>>

\* last.ret is the index of the voice released, N when no voice matched
Polyphony_note_off(midi_note) ==
    /\ LET found == find_note(voices, midi_note)
       IN  /\ voices' = IF found = None THEN voices
                        ELSE [voices EXCEPT ![found[1]] = Voice_note_off(voices[found[1]])]
           /\ last' = Call("note_off", midi_note, IF found = None THEN N ELSE found[1])
    /\ UNCHANGED <<ages, counter, env>>

\* last.ret is the sample returned
Polyphony_next_sample ==
    /\ voices' = [i \in DOMAIN voices |-> IF next_sample_filter(voices[i])
                                THEN Voice_next_sample(voices[i]).voice
                                ELSE voices[i]]
    /\ last' = Call("next_sample", 0, SumFrom(voices, 0))
    /\ UNCHANGED <<ages, counter, env>>

Polyphony_reset ==
    /\ voices' = [i \in DOMAIN voices |-> Voice_reset(voices[i])]
    /\ ages' = [i \in DOMAIN ages |-> 0]
    /\ counter' = 0
    /\ last' = Call("reset", 0, 0)
    /\ UNCHANGED env

\* last.ret is the count returned
Polyphony_active_count ==
    /\ last' = Call("active_count", 0, active_count(voices))
    /\ UNCHANGED <<voices, ages, counter, env>>

\* last.ret is the number of voices of the pool
Polyphony_capacity ==
    /\ last' = Call("capacity", 0, Cardinality(DOMAIN voices))
    /\ UNCHANGED <<voices, ages, counter, env>>

\* Polyphony::new / from_factory for a pool of any size from 0 to N
InitAny ==
    /\ \E n \in 0 .. N :
          /\ voices = [i \in 0 .. (n - 1) |-> PoolVoice]
          /\ ages = [i \in 0 .. (n - 1) |-> 0]
    /\ counter = 0
    /\ env = PoolVoice.amp_env
    /\ last = Call("new", 0, 0)

\* ------------------------------------- voices_mut(): a voice driven directly
Direct_note_on(i, midi_note, velocity) ==
    /\ voices' = [voices EXCEPT ![i] = Voice_note_on(voices[i], midi_note, velocity)]
    /\ last' = Call("voice.note_on", midi_note, i)
    /\ UNCHANGED <<ages, counter, env>>

Direct_note_off(i) ==
    /\ voices' = [voices EXCEPT ![i] = Voice_note_off(voices[i])]
    /\ last' = Call("voice.note_off", 0, i)
    /\ UNCHANGED <<ages, counter, env>>

Direct_reset(i) ==
    /\ voices' = [voices EXCEPT ![i] = Voice_reset(voices[i])]
    /\ last' = Call("voice.reset", 0, i)
    /\ UNCHANGED <<ages, counter, env>>

\* Voice::try_note_on called directly; last.op tells what it returned
Direct_try_note_on(i, midi_note, velocity) ==
    /\ LET r == Voice_try_note_on(voices[i], midi_note, velocity)
       IN  /\ voices' = [voices EXCEPT ![i] = r.voice]
           /\ last' = Call(IF r.ok THEN "voice.try_note_on:Ok" ELSE "voice.try_note_on:Err",
                           midi_note, i)
    /\ UNCHANGED <<ages, counter, env>>

\* Voice::next_sample called directly; last.arg is the sample returned
Direct_next_sample(i) ==
    /\ voices' = [voices EXCEPT ![i] = Voice_next_sample(voices[i]).voice]
    /\ last' = Call("voice.next_sample", Voice_next_sample(voices[i]).out, i)
    /\ UNCHANGED <<ages, counter, env>>

\* f32 velocities a caller of one voice passes: -0.25, 0.25 and 1.5
VoiceVelocities == {0 - (Unit \div 4), Unit \div 4, (3 * Unit) \div 2}

\* ------------------------------------------------- a LinearAdsr on its own
\* construction arguments: a sample rate in Hz, times in milliseconds (0 is below
\* MIN_TIME), sustain levels below, inside and above the range
SampleRates == {10}
Times == {0, 100, 150, 400}
Sustains == {0 - (Unit \div 4), Unit \div 2, Unit + (Unit \div 4)}

InitAdsr ==
    /\ voices = [i \in Idx |-> PoolVoice]
    /\ ages = [i \in Idx |-> 0]
    /\ counter = 0
    /\ \E sample_rate \in SampleRates, attack \in Times, decay \in Times,
          sustain \in Sustains, release \in Times :
            env = LinearAdsr_new(sample_rate, attack, decay, sustain, release)
    /\ last = Call("new", 0, 0)

Adsr_gate_on ==
    /\ env' = gate_on(env)
    /\ last' = Call("gate_on", 0, 0)
    /\ UNCHANGED <<voices, ages, counter>>

Adsr_gate_off ==
    /\ env' = gate_off(env)
    /\ last' = Call("gate_off", 0, 0)
    /\ UNCHANGED <<voices, ages, counter>>

\* last.ret is the level returned
Adsr_step ==
    /\ env' = Adsr_next_sample(env)
    /\ last' = Call("next_sample", 0, Adsr_next_sample(env).level)
    /\ UNCHANGED <<voices, ages, counter>>

Adsr_set_retrigger(retrigger) ==
    /\ env' = set_retrigger(env, retrigger)
    /\ last' = Call("set_retrigger", 0, 0)
    /\ UNCHANGED <<voices, ages, counter>>

\* construction and setter arguments of any sign: sample rates -10, 0 and 10 Hz,
\* times -0.1 s, 0 s (both below MIN_TIME), 0.1 s and 0.4 s
AnySampleRates == {0 - 10, 0, 10}
AnyTimes == {0 - 100, 0, 100, 400}

InitArgs ==
    /\ voices = [i \in Idx |-> PoolVoice]
    /\ ages = [i \in Idx |-> 0]
    /\ counter = 0
    /\ \E sample_rate \in AnySampleRates, attack \in AnyTimes, decay \in AnyTimes,
          sustain \in Sustains, release \in AnyTimes :
            env = LinearAdsr_new(sample_rate, attack, decay, sustain, release)
    /\ last = Call("new", 0, 0)

\* last.arg is the time passed, in milliseconds
Adsr_set_attack(seconds) ==
    /\ env' = set_attack(env, seconds)
    /\ last' = Call("set_attack", seconds, 0)
    /\ UNCHANGED <<voices, ages, counter>>

Adsr_set_decay(seconds) ==
    /\ env' = set_decay(env, seconds)
    /\ last' = Call("set_decay", seconds, 0)
    /\ UNCHANGED <<voices, ages, counter>>

Adsr_set_release(seconds) ==
    /\ env' = set_release(env, seconds)
    /\ last' = Call("set_release", seconds, 0)
    /\ UNCHANGED <<voices, ages, counter>>

\* -------------------------------------------------------- specifications
\* the pool driven through its own operations
Next ==
    \/ \E midi_note \in Notes, velocity \in Velocities : Polyphony_note_on(midi_note, velocity)
    \/ \E midi_note \in Notes : Polyphony_note_off(midi_note)
    \/ Polyphony_next_sample
    \/ Polyphony_reset

Spec == Init /\ [][Next]_vars

\* pools of every size from 0 to N driven through all the pool's operations
NextAny ==
    \/ \E midi_note \in Notes, velocity \in Velocities : Polyphony_note_on(midi_note, velocity)
    \/ \E midi_note \in Notes : Polyphony_note_off(midi_note)
    \/ Polyphony_next_sample
    \/ Polyphony_reset
    \/ Polyphony_active_count
    \/ Polyphony_capacity

SpecAny == InitAny /\ [][NextAny]_vars

\* the allocator under note events and direct access to the voices (voices_mut());
\* no audio is rendered, so a voice turns inactive only by a reset
NextAlloc ==
    \/ \E midi_note \in Notes, velocity \in Velocities : Polyphony_note_on(midi_note, velocity)
    \/ \E midi_note \in Notes : Polyphony_note_off(midi_note)
    \/ Polyphony_reset
    \/ \E i \in Idx, midi_note \in Notes, velocity \in Velocities :
            Direct_note_on(i, midi_note, velocity)
    \/ \E i \in Idx : Direct_note_off(i)
    \/ \E i \in Idx : Direct_reset(i)

SpecAlloc == Init /\ [][NextAlloc]_vars

\* one envelope driven through the Envelope trait and set_retrigger
NextAdsr ==
    \/ Adsr_gate_on
    \/ Adsr_gate_off
    \/ Adsr_step
    \/ \E retrigger \in BOOLEAN : Adsr_set_retrigger(retrigger)

SpecAdsr == InitAdsr /\ [][NextAdsr]_vars

\* the same envelope in an audio loop: next_sample keeps being called
SpecAdsrFair == InitAdsr /\ [][NextAdsr]_vars /\ WF_vars(Adsr_step)

\* an envelope constructed with any arguments and reconfigured by its time setters
NextArgs ==
    \/ \E seconds \in AnyTimes : Adsr_set_attack(seconds)
    \/ \E seconds \in AnyTimes : Adsr_set_decay(seconds)
    \/ \E seconds \in AnyTimes : Adsr_set_release(seconds)

SpecArgs == InitArgs /\ [][NextArgs]_vars

\* one voice, the pool's first, driven through Voice's own operations
NextVoice ==
    \/ \E midi_note \in Notes, velocity \in VoiceVelocities :
            Direct_try_note_on(0, midi_note, velocity)
    \/ \E midi_note \in Notes, velocity \in VoiceVelocities :
            Direct_note_on(0, midi_note, velocity)
    \/ Direct_note_off(0)
    \/ Direct_next_sample(0)
    \/ Direct_reset(0)

SpecVoice == Init /\ [][NextVoice]_vars

\* ---------------------------------------------------------------- claims
AllActive(vs) == \A i \in Idx : Voice_is_active(vs[i])
Inactive(vs) == {i \in Idx : ~Voice_is_active(vs[i])}
Holding(vs, midi_note) == {i \in Idx : vs[i].note = Some(midi_note)}
OthersUnchanged(k) == \A j \in Idx \ {k} : voices'[j] = voices[j]

\* C1: a note_on with no inactive voice chooses a voice of minimum age, the lowest
\* index among those of that age; after a first note_on on each voice of an idle pool
\* (ages 1..N in pool order) it chooses voice 0
C1_StealsOldest ==
    [][(last'.op = "note_on" /\ AllActive(voices)) =>
         LET k == last'.ret
         IN  /\ ages'[k] = counter'
             /\ \A j \in Idx : ages[k] <= ages[j]
             /\ \A j \in Idx : ages[j] = ages[k] => k <= j
             /\ (counter = N /\ \A i \in Idx : ages[i] = i + 1) => k = 0]_vars

\* a steal of voice 1, the older of two voices that have each been stamped
C1_Witness ==
    /\ last.op = "note_on" /\ last.arg = 200 /\ last.ret = 1
    /\ AllActive(voices)
    /\ ages[0] > 0 /\ ages[1] = counter

\* a steal among voices that all have age 0 (triggered through voices_mut())
C1_WitnessTie ==
    /\ last.op = "note_on" /\ last.arg = 200 /\ last.ret = 0
    /\ AllActive(voices)
    /\ counter = 1 /\ \A i \in Idx \ {0} : ages[i] = 0

\* C2: a note_on with an inactive voice chooses the inactive voice of lowest index
\* (an active voice in its release tail is not chosen); with voices 0..k-1 active and
\* the others idle it chooses voice k
C2_FirstFree ==
    [][(last'.op = "note_on" /\ Inactive(voices) # {}) =>
         LET k == last'.ret
         IN  /\ ages'[k] = counter'
             /\ k \in Inactive(voices)
             /\ \A j \in Inactive(voices) : k <= j
             /\ \A m \in Idx :
                  (\A i \in Idx : Voice_is_active(voices[i]) <=> i < m) => k = m]_vars

\* voice 1 was chosen although voice 0, in its release tail, stores no note
C2_Witness ==
    /\ last.op = "note_on" /\ last.ret = 1
    /\ voices[0].note = None /\ voices[0].amp_env.stage = "Release"
    /\ voices[1].note = Some(last.arg)

RECURSIVE SumOver(_, _)
SumOver(S, f) ==
    IF S = {} THEN 0
    ELSE LET i == Lowest(S) IN f[i] + SumOver(S \ {i}, f)

\* C4: next_sample returns the sum of Voice.next_sample over the voices active at the
\* start of the call and advances exactly those; an inactive voice is unchanged
C4_SumOfActive ==
    [][last'.op = "next_sample" =>
         LET act == Idx \ Inactive(voices)
         IN  /\ last'.ret = SumOver(act, [i \in Idx |-> Voice_next_sample(voices[i]).out])
             /\ \A i \in act : voices'[i] = Voice_next_sample(voices[i]).voice
             /\ \A i \in Idx \ act : voices'[i] = voices[i]]_vars

\* a sample other than 0 was returned while an idle voice kept its oscillator mid-cycle
C4_Witness ==
    /\ last.op = "next_sample" /\ last.ret # 0
    /\ \E i \in Idx : ~Voice_is_active(voices[i]) /\ voices[i].osc.phase = 1
    /\ \E i \in Idx : Voice_is_active(voices[i])

\* C5: note_off of a note no voice stores changes no voice, no age and not the counter
C5_NoteOffUnmatched ==
    [][(last'.op = "note_off" /\ Holding(voices, last'.arg) = {}) =>
         UNCHANGED <<voices, ages, counter>>]_vars

\* note_off(60) matched nothing while a voice that played 60 is still sounding
C5_Witness ==
    /\ last.op = "note_off" /\ last.arg = 60 /\ last.ret = N
    /\ \E i \in Idx : /\ Voice_is_active(voices[i])
                      /\ voices[i].osc.frequency = Frequency(60)
    /\ \E i \in Idx : voices[i].note = Some(64)

\* C6: with several voices storing the note, note_off releases the one of lowest index
\* (note None, stage Release) and leaves every other voice as it was
C6_ReleasesFirstMatch ==
    [][(last'.op = "note_off" /\ Cardinality(Holding(voices, last'.arg)) >= 2) =>
         LET f == Lowest(Holding(voices, last'.arg))
         IN  /\ voices'[f].note = None
             /\ voices'[f].amp_env.stage = "Release"
             /\ OthersUnchanged(f)
             /\ \A j \in Holding(voices, last'.arg) \ {f} :
                    /\ voices'[j].note = Some(last'.arg)
                    /\ voices'[j].amp_env.stage # "Release"]_vars

\* voice 0 was released and voice 1 still stores the same note
C6_Witness ==
    /\ last.op = "note_off" /\ last.ret = 0
    /\ voices[0].note = None /\ voices[0].amp_env.stage = "Release"
    /\ voices[1].note = Some(last.arg)

\* voice j stores the note whose first holder the last note_off released
Stuck(j) ==
    /\ last.op = "note_off" /\ last.ret \in Idx /\ last.ret < j
    /\ voices[j].note = Some(last.arg)
    /\ voices[j].amp_env.stage # "Release"

\* the step resets voice j or retriggers it by a note_on, or drives it directly
ResetsOrRetriggers(j) ==
    \/ last'.op = "reset"
    \/ last'.op = "note_on" /\ last'.ret = j
    \/ last'.op \in {"voice.note_on", "voice.note_off", "voice.reset"} /\ last'.ret = j

\* C7 as stated: the duplicate left by note_off keeps its note and stays out of
\* Release across every pool operation but a reset and a note_on that retriggers it
C7_Original ==
    [][\A j \in Idx : (Stuck(j) /\ ~ResetsOrRetriggers(j)) =>
          /\ voices'[j].note = voices[j].note
          /\ voices'[j].amp_env.stage # "Release"]_vars

\* C7 amended: a voice that stores a note and is not in Release (the duplicate
\* included) keeps its note and stays out of Release across every step but a reset,
\* a note_on that chooses it, and a note_off of its note that finds it first
C7_StuckUntil ==
    [][\A j \in Idx :
          (/\ voices[j].note # None
           /\ voices[j].amp_env.stage # "Release"
           /\ ~ResetsOrRetriggers(j)
           /\ ~(last'.op = "note_off" /\ last'.ret = j)) =>
          /\ voices'[j].note = voices[j].note
          /\ voices'[j].amp_env.stage # "Release"]_vars

\* right after note_off released voice 0, voice 1 is the duplicate
C7_Witness == Stuck(1) /\ last.ret = 0 /\ voices[0].note = None

\* C8: right after reset every voice is inactive, without note, at velocity 0, Idle at
\* level 0, every age and the counter are 0 and active_count() is 0
C8_ResetClears ==
    last.op = "reset" =>
        /\ \A i \in Idx : /\ ~Voice_is_active(voices[i])
                          /\ voices[i].note = None
                          /\ voices[i].velocity = 0
                          /\ voices[i].amp_env.stage = "Idle"
                          /\ voices[i].amp_env.level = MIN_LEVEL
                          /\ ages[i] = 0
        /\ counter = 0
        /\ active_count(voices) = 0

\* a reset of a pool all of whose voices had played a note
C8_Witness ==
    /\ last.op = "reset"
    /\ \A i \in Idx : voices[i].osc.frequency # PoolVoice.osc.frequency

\* C9: every age is 0 or a value the counter took (nonzero ages differ); note_on
\* adds 1 to the counter and stamps the chosen voice with it, reset zeroes the counter
\* and every age, and no other operation changes either
C9_Ages ==
    /\ [](\A i \in Idx :
            /\ ages[i] \in 0 .. counter
            /\ \A j \in Idx : (i # j /\ ages[i] = ages[j]) => ages[i] = 0)
    /\ [][/\ last'.op = "note_on" =>
                /\ counter' = counter + 1
                /\ ages'[last'.ret] = counter'
                /\ \A j \in Idx \ {last'.ret} : ages'[j] = ages[j]
          /\ last'.op = "reset" =>
                /\ counter' = 0
                /\ \A j \in Idx : ages'[j] = 0
          /\ last'.op \notin {"note_on", "reset"} => UNCHANGED <<ages, counter>>]_vars

\* voice 1 keeps the stamp of an earlier note_on, voice 0 has the newest one
C9_Witness ==
    /\ counter >= 3
    /\ ages[0] = counter
    /\ ages[1] > 0 /\ ages[1] < counter - 1

TheVoice == voices[0]

VoiceCall(op) == last'.op = op /\ last'.ret = 0

\* C11: try_note_on with a note number the pitch conversion rejects returns Err and
\* leaves the voice (note, velocity, oscillator, envelope) as it was, whatever the
\* voice was doing; note_on with such a number leaves the voice as it was too
C11_RejectedNoteIsNoOp ==
    [][/\ (~MidiValid(last'.arg) /\ (VoiceCall("voice.try_note_on:Ok")
                                     \/ VoiceCall("voice.try_note_on:Err")))
            => (last'.op = "voice.try_note_on:Err" /\ voices' = voices)
       /\ (MidiValid(last'.arg) /\ (VoiceCall("voice.try_note_on:Ok")
                                    \/ VoiceCall("voice.try_note_on:Err")))
            => last'.op = "voice.try_note_on:Ok"
       /\ (~MidiValid(last'.arg) /\ VoiceCall("voice.note_on"))
            => voices' = voices]_vars

\* try_note_on(200, _) has returned Err on a voice in its release tail that had
\* played note 60 at velocity 0.25
C11_Witness ==
    /\ last.op = "voice.try_note_on:Err" /\ last.arg = 200
    /\ TheVoice.note = None
    /\ TheVoice.amp_env.stage = "Release" /\ TheVoice.amp_env.level > 0
    /\ TheVoice.velocity = Unit \div 4
    /\ TheVoice.osc.frequency = Frequency(60)

\* try_note_on(200, _) has returned Err on a voice that holds note 64
C11_WitnessHolding ==
    /\ last.op = "voice.try_note_on:Err" /\ last.arg = 200
    /\ TheVoice.note = Some(64)
    /\ TheVoice.amp_env.stage = "Sustain"

\* C12: note_off on a voice that holds a note clears the note and leaves the voice
\* active, in Release at the level it had, so find_free_voice does not offer it; in
\* that tail the note stays None until a note-on, and the voice turns inactive only
\* by a next_sample that takes the envelope from Release to Idle or by a reset
C12_ReleaseTail ==
    [][/\ (VoiceCall("voice.note_off") /\ TheVoice.note # None) =>
            /\ voices'[0].note = None
            /\ Voice_is_active(voices'[0])
            /\ voices'[0].amp_env.stage = "Release"
            /\ voices'[0].amp_env.level = TheVoice.amp_env.level
            /\ find_free_voice(voices') # Some(0)
       /\ (TheVoice.note = None /\ Voice_is_active(TheVoice)) =>
            /\ TheVoice.amp_env.stage = "Release"
            /\ voices'[0].note # None =>
                   last'.op \in {"voice.note_on", "voice.try_note_on:Ok"}
            /\ ~Voice_is_active(voices'[0]) =>
                   \/ last'.op = "voice.reset"
                   \/ /\ last'.op = "voice.next_sample"
                      /\ voices'[0].amp_env.stage = "Idle"
                      /\ voices'[0].amp_env.level = 0]_vars

\* a sample has been rendered in the release tail and the tail goes on
C12_Witness ==
    /\ last.op = "voice.next_sample"
    /\ TheVoice.note = None
    /\ Voice_is_active(TheVoice)
    /\ TheVoice.amp_env.stage = "Release" /\ TheVoice.amp_env.level > 0

\* --------------------------------------------- claims about one envelope
\* C13: gate_off in Attack, Decay, Sustain or Release sets the stage to Release and
\* leaves the level (and everything else) as it is; in Idle it changes nothing, and
\* an Idle envelope has level 0
C13_GateOff ==
    [][last'.op = "gate_off" =>
         /\ env.stage # "Idle" =>
                /\ env'.stage = "Release"
                /\ env'.level = env.level
                /\ env' = [env EXCEPT !.stage = "Release"]
         /\ env.stage = "Idle" =>
                /\ env' = env
                /\ env'.stage = "Idle" /\ env'.level = 0]_vars

\* gate_off has been called in the middle of a ramp
C13_Witness ==
    /\ last.op = "gate_off"
    /\ env.stage = "Release"
    /\ env.level > 0 /\ env.level < MAX_LEVEL /\ env.level # env.sustain

\* C14: gate_on with retrigger enabled sets the level to 0 and the stage to Attack;
\* with retrigger disabled it keeps the level and sets the stage to Decay when the
\* level is 1.0 and to Attack otherwise; from Idle the result is always Attack
C14_GateOn ==
    [][last'.op = "gate_on" =>
         /\ env.retrigger => (env'.level = 0 /\ env'.stage = "Attack")
         /\ ~env.retrigger =>
                /\ env'.level = env.level
                /\ env'.stage = IF env.level = MAX_LEVEL THEN "Decay" ELSE "Attack"
         /\ env.stage = "Idle" => (env'.stage = "Attack" /\ env'.level = 0)
         /\ env' = [env EXCEPT !.level = env'.level, !.stage = env'.stage]]_vars

\* a legato gate_on has found the level at 1.0 and gone to Decay
C14_Witness ==
    /\ last.op = "gate_on"
    /\ ~env.retrigger
    /\ env.stage = "Decay" /\ env.level = MAX_LEVEL

\* a legato gate_on has found the level at 0 and started the attack from there
C14_WitnessIdle ==
    /\ last.op = "gate_on"
    /\ ~env.retrigger
    /\ env.stage = "Attack" /\ env.level = 0

\* the number of next_sample calls that take the envelope e to Idle
RECURSIVE StepsToIdle(_)
StepsToIdle(e) ==
    IF e.stage = "Idle" THEN 0 ELSE 1 + StepsToIdle(Adsr_next_sample(e))

\* the least whole number not below a / b
CeilDiv(a, b) == (a + b - 1) \div b

C16_NoPanic == last.op # "panic"

\* ------------------------------------- claims about one envelope, continued
\* C17 as stated: after construction with any arguments and after any time setter
\* the three rates are strictly positive
C17_Original ==
    /\ env.attack_rate > 0
    /\ env.decay_rate > 0
    /\ env.release_rate > 0

\* C17 amended: for a positive sample rate, after construction and after any time
\* setter each time is at least MIN_TIME, each rate is the one derived from the
\* floored time, and the three rates are strictly positive
C17_RatesPositive ==
    env.sample_rate > 0 =>
        /\ env.attack >= MIN_TIME /\ env.decay >= MIN_TIME /\ env.release >= MIN_TIME
        /\ env.attack_rate = Rate(env.attack, env.sample_rate)
        /\ env.decay_rate = Rate(env.decay, env.sample_rate)
        /\ env.release_rate = Rate(env.release, env.sample_rate)
        /\ env.attack_rate > 0 /\ env.decay_rate > 0 /\ env.release_rate > 0

\* set_attack has been given a time below the floor
C17_Witness ==
    /\ last.op = "set_attack" /\ last.arg < MIN_TIME
    /\ env.sample_rate > 0
    /\ env.attack = MIN_TIME
    /\ env.attack_rate = Rate(MIN_TIME, env.sample_rate)

\* C18: stage = Idle exactly when is_active() is false and exactly when the output
\* is silence: an Idle envelope has level 0 and returns 0 from next_sample, and an
\* envelope whose next_sample returns 0 is Idle
C18_IdleIffSilent ==
    /\ env.stage = "Idle" <=> ~Adsr_is_active(env)
    /\ env.stage = "Idle" => env.level = 0
    /\ (last.op = "next_sample" /\ env.stage = "Idle") => last.ret = 0
    /\ (last.op = "next_sample" /\ last.ret = 0) => env.stage = "Idle"

\* the envelope of the worked example: sample_rate 10, times 0.1 s, sustain 0.5, so
\* that the three rates are 1.0 per sample
Example(e) ==
    /\ e.sample_rate = 10
    /\ e.attack = 100 /\ e.decay = 100 /\ e.release = 100
    /\ e.attack_rate = Unit /\ e.decay_rate = Unit /\ e.release_rate = Unit
    /\ e.sustain = Unit \div 2

\* C19: on the example envelope, gate_on from Idle starts the attack at 0; the next
\* next_sample returns 1.0 and enters Decay; the next returns 0.5 and enters
\* Sustain; every further next_sample returns 0.5 in Sustain; gate_off keeps 0.5 and
\* enters Release; the next next_sample returns 0.0 and enters Idle
C19_ExampleTrace ==
    [][Example(env) =>
         /\ (last'.op = "gate_on" /\ env.stage = "Idle") =>
                (env'.stage = "Attack" /\ env'.level = 0)
         /\ (last'.op = "next_sample" /\ env.stage = "Attack" /\ env.level = 0) =>
                (last'.ret = Unit /\ env'.stage = "Decay")
         /\ (last'.op = "next_sample" /\ env.stage = "Decay" /\ env.level = Unit) =>
                (last'.ret = Unit \div 2 /\ env'.stage = "Sustain")
         /\ (last'.op = "next_sample" /\ env.stage = "Sustain") =>
                (last'.ret = Unit \div 2 /\ env'.stage = "Sustain")
         /\ (last'.op = "gate_off" /\ env.stage = "Sustain") =>
                (env'.stage = "Release" /\ env'.level = Unit \div 2)
         /\ (last'.op = "next_sample" /\ env.stage = "Release"
                                      /\ env.level = Unit \div 2) =>
                (last'.ret = 0 /\ env'.stage = "Idle")]_vars

\* the example envelope has been sampled and holds its sustain level
C19_Witness ==
    /\ Example(env)
    /\ last.op = "next_sample" /\ last.ret = Unit \div 2
    /\ env.stage = "Sustain"
    /\ env.retrigger

\* ------------------------------------- claims about one voice, continued
\* C20: a voice driven through note_on, try_note_on, note_off, next_sample and reset
\* is active whenever it stores a note, so an inactive voice stores no note
C20_NoteImpliesActive ==
    /\ TheVoice.note # None => Voice_is_active(TheVoice)
    /\ ~Voice_is_active(TheVoice) => TheVoice.note = None
    /\ \A midi_note \in Notes :
          find_note(voices, midi_note) = Some(0) => Voice_is_active(TheVoice)

\* the voice has been sampled into its sustain while it holds note 60
C20_Witness ==
    /\ last.op = "voice.next_sample"
    /\ TheVoice.note = Some(60)
    /\ TheVoice.amp_env.stage = "Sustain"
    /\ Voice_is_active(TheVoice)

\* the same for every voice of a pool driven through the pool's operations: a
\* note_off that finds a matching voice releases an active voice
C20_PoolNoteImpliesActive ==
    /\ \A i \in Idx : voices[i].note # None => Voice_is_active(voices[i])
    /\ \A midi_note \in Notes :
          find_note(voices, midi_note) # None =>
              Voice_is_active(voices[find_note(voices, midi_note)[1]])

\* ------------------------------------------------- claims about the pool, continued
\* C21: a note_on with a note number the pitch conversion rejects leaves every voice
\* as it was (no voice starts, no victim is interrupted, active_count() is the same),
\* yet it adds 1 to the counter and stamps the selected voice, the first inactive
\* one or else the first of minimum age, with the new counter value
C21_RejectedNoteStillStamps ==
    [][(last'.op = "note_on" /\ ~MidiValid(last'.arg)) =>
         LET k == last'.ret
         IN  /\ k \in Idx
             /\ voices' = voices
             /\ active_count(voices') = active_count(voices)
             /\ counter' = counter + 1
             /\ ages'[k] = counter'
             /\ \A j \in Idx \ {k} : ages'[j] = ages[j]
             /\ Inactive(voices) # {} =>
                    (k \in Inactive(voices) /\ \A j \in Inactive(voices) : k <= j)
             /\ Inactive(voices) = {} =>
                    /\ \A j \in Idx : ages[k] <= ages[j]
                    /\ \A j \in Idx : j < k => ages[j] > ages[k]]_vars

\* note_on(200, _) on a full pool: the voice selected still holds note 60 and plays
\* on, and it carries the newest stamp although its note started earlier
C21_Witness ==
    /\ last.op = "note_on" /\ last.arg = 200
    /\ AllActive(voices)
    /\ voices[last.ret].note = Some(60)
    /\ voices[last.ret].amp_env.stage = "Sustain"
    /\ ages[last.ret] = counter /\ counter = N + 1

\* note_on(200, _) on an idle pool: voice 0 is stamped and stays inactive
C21_WitnessFree ==
    /\ last.op = "note_on" /\ last.arg = 200 /\ last.ret = 0
    /\ ~Voice_is_active(voices[0])
    /\ ages[0] = counter /\ counter > 0

====
